---- MODULE Spec2Model ----
(***************************************************************************)
(* libperfmon (src/perfmon.c, src/perfmon.h): one counter session over the *)
(* perf_event_open facility.  The session context, the kernel's view of    *)
(* the session's perf events (open descriptors, counting or not, the       *)
(* accumulated value), the monotonic clock, the thread-local error text    *)
(* and the caller's statistics buffer are the state; every public function *)
(* of perfmon.h is one action.                                             *)
(***************************************************************************)
EXTENDS Integers, Sequences, FiniteSets, TLC

\* ------------------------------------------------------------- bounds
\* enable/disable arguments, workload events and read failures are drawn
\* from the kinds 0..MaxKind (plus one out-of-range argument)
MaxKind == 0
\* a kernel counter accumulates at most this many workload events
MaxCount == 1
\* perfmon_cleanup is called at most this many times on one context pointer
MaxCleanups == 2
\* the monotonic clock advances at most this many half-seconds
MaxTicks == 2

\* ------------------------------------------- perfmon_counter_type_t
PERFMON_CYCLES == 0
PERFMON_INSTRUCTIONS == 1
PERFMON_BRANCHES == 2
PERFMON_BRANCH_MISSES == 3
PERFMON_CACHE_REFERENCES == 4
PERFMON_CACHE_MISSES == 5
PERFMON_DTLB_LOAD_MISSES == 6
PERFMON_ITLB_MISSES == 7
PERFMON_PAGE_FAULTS == 8
PERFMON_MINOR_FAULTS == 9
PERFMON_MAJOR_FAULTS == 10
PERFMON_CONTEXT_SWITCHES == 11
PERFMON_CPU_MIGRATIONS == 12
PERFMON_MAX_COUNTERS == 13

Kinds == 0..(PERFMON_MAX_COUNTERS - 1)

\* the kinds the bounded inputs range over, and the remaining ones
KindArgs == 0..MaxKind
OtherKinds == Kinds \ KindArgs

\* nanoseconds per second (the 1e9 of timespec_diff_sec)
NsecPerSec == 1000 * 1000 * 1000
TickNs == NsecPerSec \div 2

VARIABLES
    avail,        \* environment: the perf_event_attr requests the OS grants
    ctx,          \* the caller's context pointer: "null", "live" or "freed"
    fd,           \* ctx->counters[i].fd
    enabled,      \* ctx->counters[i].enabled
    is_running,   \* ctx->is_running
    start_time,   \* ctx->start_time
    end_time,     \* ctx->end_time
    openFds,      \* kernel: the descriptors open in the process
    closes,       \* kernel: close() calls issued on each descriptor number
    count,        \* kernel: value of the perf event opened for kind i
    active,       \* kernel: whether that perf event is counting
    now,          \* CLOCK_MONOTONIC
    ticks,        \* how often the clock has advanced
    error_msg,    \* the thread-local error_msg buffer
    stats,        \* the caller's perfmon_stats_t buffer
    ret,          \* the last call of the API: function, result, kind argument
    probe,        \* the last perfmon_is_supported(): "yes" or "no", "none" before
    cleanups,     \* perfmon_cleanup calls made on a non-null pointer
    uaf,          \* a freed context was read or freed again
    offSince,     \* kinds not enabled since the last successful start
    quiet,        \* progress of a reset-in-Idle, start, stop run without events
    resetSince,   \* perfmon_reset ran in the measurement window
    onSince,      \* kinds the window's start started, not disabled since
    evSince,      \* workload events in the window, for the kinds of onSince
    anyFailure    \* a call on this thread has reported or recorded a failure

vars == <<avail, ctx, fd, enabled, is_running, start_time, end_time, openFds,
          closes, count, active, now, ticks, error_msg, stats, ret, probe,
          cleanups, uaf, offSince, quiet, resetSince, onSince, evSince,
          anyFailure>>

sessionVars == <<fd, enabled, is_running, start_time, end_time>>
\* what the measurement window has seen: the window opens at a successful
\* perfmon_start, and is forgotten at the first call after its perfmon_stop
windowVars == <<resetSince, onSince, evSince>>
kernelVars == <<openFds, closes, count, active>>

\* ------------------------------------------------ perf_event_attr
\* the fields of perf_event_attr that differ between the requests made
Attr(type, config, inherit) == [type |-> type, config |-> config, inherit |-> inherit]

\* the (type, config) pair perfmon_init passes to setup_counter for a kind
KindEvent(k) ==
    CASE k = PERFMON_CYCLES -> <<"HARDWARE", "CPU_CYCLES">>
      [] k = PERFMON_INSTRUCTIONS -> <<"HARDWARE", "INSTRUCTIONS">>
      [] k = PERFMON_BRANCHES -> <<"HARDWARE", "BRANCH_INSTRUCTIONS">>
      [] k = PERFMON_BRANCH_MISSES -> <<"HARDWARE", "BRANCH_MISSES">>
      [] k = PERFMON_CACHE_REFERENCES -> <<"HARDWARE", "CACHE_REFERENCES">>
      [] k = PERFMON_CACHE_MISSES -> <<"HARDWARE", "CACHE_MISSES">>
      [] k = PERFMON_PAGE_FAULTS -> <<"SOFTWARE", "PAGE_FAULTS">>
      [] k = PERFMON_MINOR_FAULTS -> <<"SOFTWARE", "PAGE_FAULTS_MIN">>
      [] k = PERFMON_MAJOR_FAULTS -> <<"SOFTWARE", "PAGE_FAULTS_MAJ">>
      [] k = PERFMON_CONTEXT_SWITCHES -> <<"SOFTWARE", "CONTEXT_SWITCHES">>
      [] k = PERFMON_CPU_MIGRATIONS -> <<"SOFTWARE", "CPU_MIGRATIONS">>
      [] k = PERFMON_DTLB_LOAD_MISSES -> <<"HW_CACHE", "DTLB_READ_MISS">>
      [] k = PERFMON_ITLB_MISSES -> <<"HW_CACHE", "ITLB_READ_MISS">>

\* the order in which perfmon_init sets the slots up
SetupOrder ==
    <<PERFMON_CYCLES, PERFMON_INSTRUCTIONS, PERFMON_BRANCHES, PERFMON_BRANCH_MISSES,
      PERFMON_CACHE_REFERENCES, PERFMON_CACHE_MISSES, PERFMON_PAGE_FAULTS,
      PERFMON_MINOR_FAULTS, PERFMON_MAJOR_FAULTS, PERFMON_CONTEXT_SWITCHES,
      PERFMON_CPU_MIGRATIONS, PERFMON_DTLB_LOAD_MISSES, PERFMON_ITLB_MISSES>>

\* the request setup_counter builds: inherit = 1
SetupAttr(type, config) == Attr(type, config, TRUE)
\* the cycles request without inherit
PlainCycles == Attr("HARDWARE", "CPU_CYCLES", FALSE)

\* the lowest descriptor number not in use (descriptors are numbered from
\* the first one free when the library is first called)
LowestFree(o) ==
    CHOOSE n \in 0..Cardinality(o) : n \notin o /\ \A m \in 0..(n - 1) : m \in o

\* the perf_event_open syscall: a new descriptor, or -1
perf_event_open(attr, o) == IF attr \in avail THEN LowestFree(o) ELSE -1

\* ------------------------------------------------------ error text
NoError == [text |-> "", type |-> "", config |-> ""]
\* (mutant) a message already in the buffer is kept
set_error_first(text) ==
    IF error_msg = NoError THEN [text |-> text, type |-> "", config |-> ""] ELSE error_msg
set_error(text) == [text |-> text, type |-> "", config |-> ""]
OpenError(type, config) ==
    [text |-> "Failed to open perf event", type |-> type, config |-> config]

\* the texts a failing call of function op passes to set_error
MessagesOf(op) ==
    CASE op = "init" -> {"Failed to allocate context", "Failed to open perf event"}
      [] op = "start" -> {"Invalid context", "Monitoring already running"}
      [] op = "stop" -> {"Invalid context", "Monitoring not running"}
      [] op = "reset" -> {"Invalid context"}
      [] op \in {"enable", "disable"} -> {"Invalid context or counter type"}

\* setup_counter on the descriptor table o with error text e:
\* the descriptor (or -1), the table and the error text afterwards
setup_counter(type, config, o, e) ==
    LET f == perf_event_open(SetupAttr(type, config), o) IN
    [fd |-> f,
     open |-> IF f = -1 THEN o ELSE o \cup {f},
     err |-> IF f = -1 THEN OpenError(type, config) ELSE e]

\* ------------------------------------------------------- timespec
ZeroTime == [tv_sec |-> 0, tv_nsec |-> 0]

\* the clock after one more half-second
Advance(t) ==
    IF t.tv_nsec + TickNs >= NsecPerSec
    THEN [tv_sec |-> t.tv_sec + 1, tv_nsec |-> t.tv_nsec + TickNs - NsecPerSec]
    ELSE [tv_sec |-> t.tv_sec, tv_nsec |-> t.tv_nsec + TickNs]

\* (mutant) the seconds term is left out
timespec_diff_nsec_only(start, end) == end.tv_nsec - start.tv_nsec

\* timespec_diff_sec, in nanoseconds: sec + nsec / 1e9
timespec_diff_sec(start, end) ==
    (end.tv_sec - start.tv_sec) * NsecPerSec + (end.tv_nsec - start.tv_nsec)

\* --------------------------------------------------- perfmon_stats_t
\* a ratio is kept as <<numerator, denominator>>; 0.0 is <<0, 1>>
ZeroRatio == <<0, 1>>

BlankStats ==
    [written |-> FALSE,
     cycles |-> 0, instructions |-> 0, branches |-> 0, branch_misses |-> 0,
     cache_references |-> 0, cache_misses |-> 0, dtlb_load_misses |-> 0,
     itlb_misses |-> 0, page_faults |-> 0, minor_faults |-> 0, major_faults |-> 0,
     context_switches |-> 0, cpu_migrations |-> 0,
     elapsed_time_sec |-> 0,
     insn_per_cycle |-> ZeroRatio, branch_miss_rate |-> ZeroRatio,
     cache_miss_rate |-> ZeroRatio]

\* the field of perfmon_stats_t that perfmon_stop fills for kind k
RawCount(s, k) ==
    CASE k = PERFMON_CYCLES -> s.cycles
      [] k = PERFMON_INSTRUCTIONS -> s.instructions
      [] k = PERFMON_BRANCHES -> s.branches
      [] k = PERFMON_BRANCH_MISSES -> s.branch_misses
      [] k = PERFMON_CACHE_REFERENCES -> s.cache_references
      [] k = PERFMON_CACHE_MISSES -> s.cache_misses
      [] k = PERFMON_DTLB_LOAD_MISSES -> s.dtlb_load_misses
      [] k = PERFMON_ITLB_MISSES -> s.itlb_misses
      [] k = PERFMON_PAGE_FAULTS -> s.page_faults
      [] k = PERFMON_MINOR_FAULTS -> s.minor_faults
      [] k = PERFMON_MAJOR_FAULTS -> s.major_faults
      [] k = PERFMON_CONTEXT_SWITCHES -> s.context_switches
      [] k = PERFMON_CPU_MIGRATIONS -> s.cpu_migrations

\* a call as the caller sees it: the function, its result, the kind passed and
\* whether a snapshot was written through the stats pointer
Call(op, ok, k) == [op |-> op, ok |-> ok, kind |-> k, snap |-> FALSE]
\* the kind recorded for a call that takes no kind
NoKind == PERFMON_MAX_COUNTERS + 1

\* ----------------------------------------------------------- state
Fds == 0..PERFMON_MAX_COUNTERS
\* what close() may be called with
FdArgs == Fds \cup {-1}

\* the requests perfmon_init makes for the kinds of K
Granted(K) == {SetupAttr(KindEvent(k)[1], KindEvent(k)[2]) : k \in K}

\* before perfmon_init: no context, the kernel holds nothing of the library
InitRest ==
    /\ ctx = "null"
    /\ fd = [k \in Kinds |-> -1]
    /\ enabled = [k \in Kinds |-> FALSE]
    /\ is_running = FALSE
    /\ start_time = ZeroTime
    /\ end_time = ZeroTime
    /\ openFds = {}
    /\ closes = [n \in FdArgs |-> 0]
    /\ count = [k \in Kinds |-> 0]
    /\ active = [k \in Kinds |-> FALSE]
    /\ now = ZeroTime
    /\ ticks = 0
    /\ error_msg = NoError
    /\ stats = BlankStats
    /\ ret = Call("none", TRUE, NoKind)
    /\ probe = "none"
    /\ cleanups = 0
    /\ uaf = FALSE
    /\ offSince = {}
    /\ quiet = "none"
    /\ resetSince = FALSE
    /\ onSince = {}
    /\ evSince = [k \in Kinds |-> 0]
    /\ anyFailure = FALSE

\* an environment grants the inherited cycles request only if it grants the
\* plain one (inherit only adds conditions to perf_event_open)
EnvOf(K, plain) == Granted(K) \cup (IF plain \/ PERFMON_CYCLES \in K THEN {PlainCycles} ELSE {})

\* session lifecycle: each kind of KindArgs is granted or not on its own,
\* the other kinds are granted or refused together
Init ==
    /\ \E K \in SUBSET KindArgs, rest \in BOOLEAN :
          avail = EnvOf(K \cup (IF rest THEN OtherKinds ELSE {}), FALSE)
    /\ InitRest

\* acquisition: every subset of the thirteen kinds may be refused
InitAcq ==
    /\ \E K \in SUBSET Kinds, plain \in BOOLEAN : avail = EnvOf(K, plain)
    /\ InitRest

\* ------------------------------------------- the measurement window
\* no window is being watched
CloseWindow ==
    /\ resetSince' = FALSE
    /\ onSince' = {}
    /\ evSince' = [k \in Kinds |-> 0]

\* a call that is not part of a window's bookkeeping: it leaves an open
\* window as it is, and after it the closed one is forgotten
KeepWindow == IF is_running THEN UNCHANGED windowVars ELSE CloseWindow

\* ---------------------------------------------------- perfmon_init
RECURSIVE SetupAllAbort(_, _, _, _)
\* (mutant) the first refused kind ends the acquisition of the rest
SetupAllAbort(i, f, o, e) ==
    IF i > Len(SetupOrder) THEN [fd |-> f, open |-> o, err |-> e]
    ELSE LET k == SetupOrder[i]
             r == setup_counter(KindEvent(k)[1], KindEvent(k)[2], o, e)
         IN IF r.fd = -1 THEN [fd |-> f, open |-> o, err |-> r.err]
            ELSE SetupAllAbort(i + 1, [f EXCEPT ![k] = r.fd], r.open, r.err)

RECURSIVE SetupAll(_, _, _, _)
\* the setup_counter calls of perfmon_init from position i of SetupOrder on
SetupAll(i, f, o, e) ==
    IF i > Len(SetupOrder) THEN [fd |-> f, open |-> o, err |-> e]
    ELSE LET k == SetupOrder[i]
             r == setup_counter(KindEvent(k)[1], KindEvent(k)[2], o, e)
         IN SetupAll(i + 1, [f EXCEPT ![k] = r.fd], r.open, r.err)

perfmon_init ==
    /\ ctx = "null"
    /\ \E allocOk \in BOOLEAN :
         IF ~allocOk
         THEN /\ error_msg' = set_error("Failed to allocate context")
              /\ ret' = Call("init", FALSE, NoKind)
              /\ UNCHANGED <<ctx, sessionVars, kernelVars>>
         ELSE \E r \in {SetupAll(1, [k \in Kinds |-> -1], openFds, error_msg)} :
              /\ ctx' = "live"
              /\ fd' = r.fd
              /\ enabled' = [k \in Kinds |-> r.fd[k] # -1]
              /\ is_running' = FALSE
              /\ start_time' = ZeroTime
              /\ end_time' = ZeroTime
              /\ openFds' = r.open
              /\ closes' = [n \in FdArgs |-> IF n \in r.open \ openFds THEN 0 ELSE closes[n]]
              /\ count' = [k \in Kinds |-> 0]
              /\ active' = [k \in Kinds |-> FALSE]
              /\ error_msg' = r.err
              /\ ret' = Call("init", TRUE, NoKind)
    /\ quiet' = "none"
    /\ anyFailure' = (anyFailure \/ ~ret'.ok \/ \E k \in Kinds : fd'[k] = -1)
    /\ UNCHANGED <<avail, now, ticks, stats, probe, cleanups, uaf, offSince, windowVars>>

\* --------------------------------------------------- perfmon_start
\* the slots whose counter start, stop and reset act on
Selected == {i \in Kinds : enabled[i] /\ fd[i] # -1}

\* (mutant) the counters keep their values
IocResetSkipped(S) == count
\* (mutant) every counter of the session is set to 0
IocResetAll(S) == [i \in Kinds |-> 0]
\* the counter values after ioctl(PERF_EVENT_IOC_RESET) on the slots of S
IocReset(S) == [i \in Kinds |-> IF i \in S THEN 0 ELSE count[i]]
\* counting or not after ioctl(PERF_EVENT_IOC_ENABLE) on the slots of S
IocEnable(S) == [i \in Kinds |-> IF i \in S THEN TRUE ELSE active[i]]
\* (mutant) no counter is stopped
IocDisableSkipped(S) == active
\* counting or not after ioctl(PERF_EVENT_IOC_DISABLE) on the slots of S
IocDisable(S) == [i \in Kinds |-> IF i \in S THEN FALSE ELSE active[i]]

\* (mutant) the flag is left as it was
RunningFlagNotSet == is_running
\* ctx->is_running = true
RunningFlagSet == TRUE

\* (mutant) a second start is accepted
StartRejectedNever == FALSE
\* perfmon_start's state check
StartRejected == is_running

perfmon_start ==
    /\ ctx \in {"null", "live"}
    /\ IF ctx = "null"
       THEN /\ error_msg' = set_error("Invalid context")
            /\ ret' = Call("start", FALSE, NoKind)
            /\ UNCHANGED <<sessionVars, count, active, offSince, windowVars>>
       ELSE IF StartRejected
       THEN /\ error_msg' = set_error("Monitoring already running")
            /\ ret' = Call("start", FALSE, NoKind)
            /\ UNCHANGED <<sessionVars, count, active, offSince, windowVars>>
       ELSE /\ count' = IocReset(Selected)
            /\ active' = IocEnable(Selected)
            /\ start_time' = now
            /\ is_running' = RunningFlagSet
            /\ ret' = Call("start", TRUE, NoKind)
            /\ offSince' = {i \in Kinds : ~enabled[i]}
            /\ resetSince' = FALSE
            /\ onSince' = Selected
            /\ evSince' = [i \in Kinds |-> 0]
            /\ UNCHANGED <<fd, enabled, end_time, error_msg>>
    /\ quiet' = IF quiet = "reset" /\ ret'.ok THEN "started" ELSE "none"
    /\ anyFailure' = (anyFailure \/ ~ret'.ok)
    /\ UNCHANGED <<avail, ctx, openFds, closes, now, ticks, stats, probe, cleanups, uaf>>

\* ---------------------------------------------------- perfmon_stop
\* (mutant) the count is left uninitialised when there is no descriptor
read_counter_uninit(k, rf) ==
    IF fd[k] # -1 THEN (IF k \in rf THEN 0 ELSE count[k]) ELSE MaxCount

\* (mutant) one short read makes every count of the snapshot 0
read_counter_all_or_none(k, rf) ==
    IF fd[k] # -1 THEN (IF rf # {} THEN 0 ELSE count[k]) ELSE 0

\* read_counter on slot k's descriptor; rf: the kinds whose read() comes back
\* short or failed
read_counter(k, rf) ==
    IF fd[k] # -1 THEN (IF k \in rf THEN 0 ELSE count[k]) ELSE 0

\* (mutant) stop is accepted when idle
StopRejectedNever == FALSE
\* perfmon_stop's state check
StopRejected == ~is_running

\* (mutant) the division is made whatever the denominator
RatioUnguarded(num, den, scale) == <<num * scale, den>>

\* the derived metrics of perfmon_stop: <<numerator, denominator>>
Ratio(num, den, scale) == IF den > 0 THEN <<num * scale, den>> ELSE ZeroRatio

\* what perfmon_stop writes through a non-null stats pointer
Snapshot(rf, end) ==
    LET cycles == read_counter(PERFMON_CYCLES, rf)
        instructions == read_counter(PERFMON_INSTRUCTIONS, rf)
        branches == read_counter(PERFMON_BRANCHES, rf)
        branch_misses == read_counter(PERFMON_BRANCH_MISSES, rf)
        cache_references == read_counter(PERFMON_CACHE_REFERENCES, rf)
        cache_misses == read_counter(PERFMON_CACHE_MISSES, rf)
    IN [written |-> TRUE,
        cycles |-> cycles,
        instructions |-> instructions,
        branches |-> branches,
        branch_misses |-> branch_misses,
        cache_references |-> cache_references,
        cache_misses |-> cache_misses,
        dtlb_load_misses |-> read_counter(PERFMON_DTLB_LOAD_MISSES, rf),
        itlb_misses |-> read_counter(PERFMON_ITLB_MISSES, rf),
        page_faults |-> read_counter(PERFMON_PAGE_FAULTS, rf),
        minor_faults |-> read_counter(PERFMON_MINOR_FAULTS, rf),
        major_faults |-> read_counter(PERFMON_MAJOR_FAULTS, rf),
        context_switches |-> read_counter(PERFMON_CONTEXT_SWITCHES, rf),
        cpu_migrations |-> read_counter(PERFMON_CPU_MIGRATIONS, rf),
        elapsed_time_sec |-> timespec_diff_sec(start_time, end),
        insn_per_cycle |-> Ratio(instructions, cycles, 1),
        branch_miss_rate |-> Ratio(branch_misses, branches, 100),
        cache_miss_rate |-> Ratio(cache_misses, cache_references, 100)]

\* perfmon_stop(ctx, stats); withStats: stats is not NULL, rf: the kinds
\* whose read() comes back short or failed
StopCall(withStats, rf) ==
    /\ ctx \in {"null", "live"}
    /\ IF ctx = "null"
       THEN /\ error_msg' = set_error("Invalid context")
            /\ ret' = Call("stop", FALSE, NoKind)
            /\ quiet' = "none"
            /\ UNCHANGED <<sessionVars, active, stats>>
       ELSE IF StopRejected
       THEN /\ error_msg' = set_error("Monitoring not running")
            /\ ret' = Call("stop", FALSE, NoKind)
            /\ quiet' = "none"
            /\ UNCHANGED <<sessionVars, active, stats>>
       ELSE /\ end_time' = now
            /\ active' = IocDisable(Selected)
            /\ stats' = IF withStats THEN Snapshot(rf, end_time') ELSE stats
            /\ is_running' = FALSE
            /\ ret' = [Call("stop", TRUE, NoKind) EXCEPT !.snap = withStats]
            /\ quiet' = IF quiet = "started" /\ withStats /\ rf = {}
                        THEN "stopped" ELSE "none"
            /\ UNCHANGED <<fd, enabled, start_time, error_msg>>
    /\ KeepWindow
    /\ anyFailure' = (anyFailure \/ ~ret'.ok)
    /\ UNCHANGED <<avail, ctx, openFds, closes, count, now, ticks, probe, cleanups,
                   uaf, offSince>>

\* no read is made when stats is NULL
perfmon_stop ==
    \E withStats \in BOOLEAN :
      \E rf \in (IF withStats THEN SUBSET KindArgs ELSE {{}}) : StopCall(withStats, rf)

\* --------------------------------------------------- perfmon_reset
perfmon_reset ==
    /\ ctx \in {"null", "live"}
    /\ IF ctx = "null"
       THEN /\ error_msg' = set_error("Invalid context")
            /\ ret' = Call("reset", FALSE, NoKind)
            /\ quiet' = "none"
            /\ UNCHANGED <<count, windowVars>>
       ELSE /\ count' = IocReset(Selected)
            /\ ret' = Call("reset", TRUE, NoKind)
            /\ quiet' = IF is_running THEN "none" ELSE "reset"
            /\ resetSince' = is_running
            /\ onSince' = {}
            /\ evSince' = [i \in Kinds |-> 0]
            /\ UNCHANGED error_msg
    /\ anyFailure' = (anyFailure \/ ~ret'.ok)
    /\ UNCHANGED <<avail, ctx, sessionVars, openFds, closes, active, now, ticks,
                   stats, probe, cleanups, uaf, offSince>>

\* ------------------------------- perfmon_enable / _disable_counter
\* (mutant) the flag is set whether or not the slot holds a descriptor
HasHandleAlways(type) == TRUE
\* perfmon_enable_counter's descriptor check
HasHandle(type) == fd[type] # -1

perfmon_enable_counter(type) ==
    /\ ctx \in {"null", "live"}
    /\ IF ctx = "null" \/ type >= PERFMON_MAX_COUNTERS
       THEN /\ error_msg' = set_error("Invalid context or counter type")
            /\ ret' = Call("enable", FALSE, type)
            /\ UNCHANGED <<enabled, offSince>>
       ELSE IF HasHandle(type)
       THEN /\ enabled' = [enabled EXCEPT ![type] = TRUE]
            /\ ret' = Call("enable", TRUE, type)
            /\ offSince' = offSince \ {type}
            /\ UNCHANGED error_msg
       ELSE /\ ret' = Call("enable", FALSE, type)
            /\ UNCHANGED <<enabled, offSince, error_msg>>
    /\ quiet' = "none"
    /\ KeepWindow
    /\ anyFailure' = (anyFailure \/ ~ret'.ok)
    /\ UNCHANGED <<avail, ctx, fd, is_running, start_time, end_time, kernelVars, now,
                   ticks, stats, probe, cleanups, uaf>>

\* (mutant) the flag of every slot is cleared
ClearedAll(type) == [k \in Kinds |-> FALSE]
\* the flags after ctx->counters[type].enabled = false
Cleared(type) == [enabled EXCEPT ![type] = FALSE]

perfmon_disable_counter(type) ==
    /\ ctx \in {"null", "live"}
    /\ IF ctx = "null" \/ type >= PERFMON_MAX_COUNTERS
       THEN /\ error_msg' = set_error("Invalid context or counter type")
            /\ ret' = Call("disable", FALSE, type)
            /\ KeepWindow
            /\ UNCHANGED enabled
       ELSE /\ enabled' = Cleared(type)
            /\ ret' = Call("disable", TRUE, type)
            /\ IF is_running
               THEN /\ onSince' = onSince \ {type}
                    /\ evSince' = [evSince EXCEPT ![type] = 0]
                    /\ UNCHANGED resetSince
               ELSE CloseWindow
            /\ UNCHANGED error_msg
    /\ quiet' = "none"
    /\ anyFailure' = (anyFailure \/ ~ret'.ok)
    /\ UNCHANGED <<avail, ctx, fd, is_running, start_time, end_time, kernelVars, now,
                   ticks, stats, probe, cleanups, uaf, offSince>>

\* ------------------------------------------------- perfmon_cleanup
\* (mutant) only the slots still enabled are closed
ToCloseEnabled == Selected
\* the slots whose descriptor perfmon_cleanup closes
ToClose == {i \in Kinds : fd[i] # -1}

\* (mutant) the context is not freed
AfterNoFree == "live"
\* the context pointer once free(ctx) has run
AfterFree == "freed"

\* close() called once for every slot of S, on that slot's descriptor
CloseAll(S) == [n \in FdArgs |-> closes[n] + Cardinality({i \in S : fd[i] = n})]

perfmon_cleanup ==
    \/ /\ ctx = "null"
       /\ ret' = Call("cleanup", TRUE, NoKind)
       /\ UNCHANGED <<ctx, openFds, closes, cleanups, uaf>>
    \/ /\ ctx = "live"
       /\ cleanups < MaxCleanups
       /\ openFds' = openFds \ {fd[i] : i \in ToClose}
       /\ closes' = CloseAll(ToClose)
       /\ ctx' = AfterFree
       /\ cleanups' = cleanups + 1
       /\ ret' = Call("cleanup", TRUE, NoKind)
       /\ UNCHANGED uaf
    \/ \* the pointer dangles: the slots are read from freed memory and the
       \* block is freed again.  The memory still holds the old descriptors,
       \* or has been overwritten with none, or the allocator aborts.
       /\ ctx = "freed"
       /\ cleanups < MaxCleanups
       /\ \E outcome \in {"stale", "scrubbed", "abort"} :
            /\ closes' = IF outcome = "stale" THEN CloseAll(ToClose) ELSE closes
            /\ ctx' = IF outcome = "abort" THEN "aborted" ELSE "freed"
       /\ uaf' = TRUE
       /\ cleanups' = cleanups + 1
       /\ ret' = Call("cleanup", TRUE, NoKind)
       /\ UNCHANGED openFds
    /\ quiet' = "none"
    /\ CloseWindow
    /\ UNCHANGED <<avail, sessionVars, count, active, now, ticks, error_msg, stats,
                   probe, offSince, anyFailure>>

\* -------------------------------------------- perfmon_is_supported
\* (mutant) the probe asks for another event than the cycles slot's
ProbeOther == Attr("HARDWARE", "INSTRUCTIONS", TRUE)
\* the request perfmon_is_supported builds: cycles, inherit left 0
ProbeAttr == Attr("HARDWARE", "CPU_CYCLES", FALSE)

perfmon_is_supported ==
    /\ ctx # "aborted"
    /\ LET f == perf_event_open(ProbeAttr, openFds) IN
         IF f = -1
         THEN /\ probe' = "no"
              /\ ret' = Call("is_supported", FALSE, NoKind)
              /\ UNCHANGED closes
         ELSE /\ probe' = "yes"
              /\ ret' = Call("is_supported", TRUE, NoKind)
              /\ closes' = [closes EXCEPT ![f] = 1]
    /\ quiet' = "none"
    /\ UNCHANGED <<avail, ctx, sessionVars, openFds, count, active, now, ticks,
                   error_msg, stats, cleanups, uaf, offSince, windowVars, anyFailure>>

\* ------------------------------------------------- the environment
\* the workload causes one event of kind k; a counting perf event records it
Event(k) ==
    /\ ctx = "live"
    /\ active[k]
    /\ count[k] < MaxCount
    /\ count' = [count EXCEPT ![k] = count[k] + 1]
    /\ quiet' = "none"
    /\ evSince' = IF is_running /\ k \in onSince
                  THEN [evSince EXCEPT ![k] = evSince[k] + 1] ELSE evSince
    /\ UNCHANGED <<avail, ctx, sessionVars, openFds, closes, active, now, ticks,
                   error_msg, stats, ret, probe, cleanups, uaf, offSince, resetSince,
                   onSince, anyFailure>>

\* the monotonic clock advances
Tick ==
    /\ ticks < MaxTicks
    /\ ticks' = ticks + 1
    /\ now' = Advance(now)
    /\ UNCHANGED <<avail, ctx, sessionVars, kernelVars, error_msg, stats, ret, probe,
                   cleanups, uaf, offSince, quiet, windowVars, anyFailure>>

\* ------------------------------------------------- specifications
KindInputs == KindArgs \cup {PERFMON_MAX_COUNTERS}

Next ==
    \/ perfmon_init
    \/ perfmon_start
    \/ perfmon_stop
    \/ perfmon_reset
    \/ \E type \in KindInputs : perfmon_enable_counter(type)
    \/ \E type \in KindInputs : perfmon_disable_counter(type)
    \/ perfmon_cleanup
    \/ \E k \in KindArgs : Event(k)

Spec == Init /\ [][Next]_vars

\* the session between open and close
NextRun ==
    \/ perfmon_init
    \/ perfmon_start
    \/ perfmon_stop
    \/ perfmon_reset
    \/ \E type \in KindInputs : perfmon_enable_counter(type)
    \/ \E type \in KindInputs : perfmon_disable_counter(type)
    \/ \E k \in KindArgs : Event(k)

SpecRun == Init /\ [][NextRun]_vars

\* measurement windows on a moving clock
NextTime ==
    \/ perfmon_init
    \/ perfmon_start
    \/ perfmon_stop
    \/ perfmon_reset
    \/ \E k \in KindArgs : Event(k)
    \/ Tick

SpecTime == Init /\ [][NextTime]_vars

\* the probe before open, open and enable of any kind, under every environment
NextAcq ==
    \/ ctx = "null" /\ perfmon_is_supported
    \/ perfmon_init
    \/ ctx = "live" /\ \E type \in Kinds : perfmon_enable_counter(type)

SpecAcq == InitAcq /\ [][NextAcq]_vars

\* the kinds the derived metrics are computed from
RatioKinds == PERFMON_CYCLES..PERFMON_CACHE_MISSES

\* the cycles kind is granted or refused, every other kind is granted
InitSnap ==
    /\ \E K \in {Kinds, Kinds \ {PERFMON_CYCLES}} : avail = EnvOf(K, FALSE)
    /\ InitRest

\* the reads that come back short in one perfmon_stop: none, or one kind's
ShortReads == {{}} \cup {{k} : k \in RatioKinds}

\* one measurement window with a snapshot: events of every kind a derived
\* metric is computed from, the clock moving, and at most one read short
NextSnap ==
    \/ perfmon_init
    \/ ~stats.written /\ perfmon_start
    \/ is_running /\ \E rf \in ShortReads : StopCall(TRUE, rf)
    \/ \E k \in RatioKinds : Event(k)
    \/ is_running /\ Tick

SpecSnap == InitSnap /\ [][NextSnap]_vars

\* measurement windows closed with or without a snapshot, the clock
\* moving and slots being disabled while the window is open
NextStop ==
    \/ perfmon_init
    \/ perfmon_start
    \/ perfmon_stop
    \/ is_running /\ \E type \in KindArgs : perfmon_disable_counter(type)
    \/ \E k \in KindArgs : Event(k)
    \/ is_running /\ Tick

SpecStop == Init /\ [][NextStop]_vars

\* ----------------------------------------------------------- claims
Live == ctx = "live"

\* C1: start() on a Running session fails and changes nothing of the
\* session: not the running flag, not started_at, no enabled flag, and no
\* kernel counter is reset or enabled.
C1_StartWhileRunning ==
    [][(Live /\ is_running /\ perfmon_start)
         => (/\ ret' = Call("start", FALSE, NoKind)
             /\ is_running'
             /\ start_time' = start_time
             /\ UNCHANGED <<fd, enabled, end_time, kernelVars, stats>>)]_vars

\* a start was refused while the clock had moved on since the accepted
\* start and a counter holding events was counting
C1_Witness ==
    /\ Live /\ is_running
    /\ ret = Call("start", FALSE, NoKind)
    /\ error_msg.text = "Monitoring already running"
    /\ start_time # now
    /\ \E k \in Kinds : active[k] /\ count[k] > 0

\* C2: stop() on an Idle session fails, writes nothing to the caller's
\* snapshot, disables no counter and leaves stopped_at and the session as
\* they were.
C2_StopWhileIdle ==
    [][(Live /\ ~is_running /\ perfmon_stop)
         => (/\ ret' = Call("stop", FALSE, NoKind)
             /\ stats' = stats
             /\ ~is_running'
             /\ end_time' = end_time
             /\ UNCHANGED <<fd, enabled, start_time, kernelVars>>)]_vars

\* a stop was refused on an Idle session whose earlier stop had filled a
\* snapshot, while a counter that was disabled mid-run was still counting
C2_Witness ==
    /\ Live /\ ~is_running
    /\ ret = Call("stop", FALSE, NoKind)
    /\ error_msg.text = "Monitoring not running"
    /\ stats.written
    /\ \E k \in Kinds : active[k]

\* C3 (as claimed): a kind that is disabled at a successful start() and
\* stays disabled until the matching stop() has raw count 0 in that stop's
\* snapshot.
C3_DisabledKindReadsZero ==
    (Live /\ ret.op = "stop" /\ ret.ok /\ ret.snap)
        => \A k \in offSince : RawCount(stats, k) = 0

\* C4 (as claimed): when is_supported() has returned false, enable(kind)
\* on a session opened in the same environment returns false for every kind.
C4_UnsupportedAllEnableFalse ==
    (Live /\ probe = "no" /\ ret.op = "enable" /\ ret.kind \in Kinds) => ~ret.ok

\* C4 (amended): when is_supported() has returned false, enable(Cycles)
\* returns false; enable of any other kind returns true exactly when that
\* kind's own acquisition succeeded at open().
C4_UnsupportedCyclesEnableFalse ==
    (Live /\ probe = "no" /\ ret.op = "enable" /\ ret.kind \in Kinds)
        => /\ ret.kind = PERFMON_CYCLES => ~ret.ok
           /\ ret.ok = (SetupAttr(KindEvent(ret.kind)[1], KindEvent(ret.kind)[2]) \in avail)

\* the probe said unsupported, the session holds handles of other kinds, and
\* enable(Cycles) has returned false
C4_Witness ==
    /\ Live /\ probe = "no"
    /\ ret = Call("enable", FALSE, PERFMON_CYCLES)
    /\ \E k \in Kinds : fd[k] # -1

\* C5: close() of a session calls close() exactly once on each descriptor
\* open() acquired, never for a slot without one, and leaves no descriptor
\* of the session open, whatever was acquired and whatever ran in between.
C5_CloseReleasesOnce ==
    (ctx = "freed" /\ cleanups = 1)
        => /\ \A i \in Kinds : fd[i] # -1 => closes[fd[i]] = 1
           /\ \A n \in FdArgs : (\A i \in Kinds : fd[i] # n) => closes[n] = 0
           /\ closes[-1] = 0
           /\ openFds = {}

\* a session was closed after a snapshot was taken, holding a handle in a
\* slot that was disabled and no handle in another slot
C5_Witness ==
    /\ ctx = "freed" /\ cleanups = 1
    /\ ret.op = "cleanup"
    /\ stats.written
    /\ \E i \in Kinds : fd[i] # -1 /\ ~enabled[i]
    /\ \E i \in Kinds : fd[i] = -1

\* C6 (as claimed): a second close() of a closed session calls close() on
\* no descriptor a second time and touches nothing the first close() freed.
C6_CloseIdempotent ==
    cleanups >= 2 => (~uaf /\ \A n \in FdArgs : closes[n] <= 1)

\* C6 (amended): close() of a null session does nothing; every further
\* close() of an already closed session reads the freed context and frees
\* it again, and after the first close() nothing of the session is open.
C6_SecondCloseReadsFreed ==
    /\ cleanups >= 2 => uaf
    /\ cleanups >= 1 => (ctx # "live" /\ openFds = {})
    /\ (ctx = "null" /\ ret.op = "cleanup") => (cleanups = 0 /\ \A n \in FdArgs : closes[n] = 0)

\* close() was called twice and the second call closed released descriptors
\* again
C6_Witness ==
    /\ cleanups = 2 /\ uaf
    /\ \E n \in Fds : closes[n] = 2

\* C7 (as claimed): reset() succeeds on a live session, Idle or Running,
\* and after reset() in Idle, start() and stop() with no counted event in
\* between, every raw count of the snapshot is 0.
C7_ResetThenZero ==
    /\ (Live /\ ret.op = "reset") => ret.ok
    /\ (Live /\ quiet = "stopped") => \A k \in Kinds : RawCount(stats, k) = 0

\* C8: whatever open() acquired, start() fails only on a Running session
\* and stop() only on an Idle one (a refused call leaves the running flag),
\* so start() from Idle and the stop() after it succeed in every cycle; a
\* snapshot returned by stop() counts 0 for every kind without a handle.
C8_DegradedSessionUsable ==
    Live =>
        /\ ret.op = "start" => (is_running /\ (~ret.ok => error_msg.text = "Monitoring already running"))
        /\ ret.op = "stop" => (~is_running /\ (~ret.ok => error_msg.text = "Monitoring not running"))
        /\ (ret.op = "stop" /\ ret.ok /\ ret.snap)
              => /\ stats.written
                 /\ \A k \in Kinds : fd[k] = -1 => RawCount(stats, k) = 0

\* on a session that acquired nothing, a start succeeded after an earlier
\* cycle had returned its snapshot, and on one that acquired some but not
\* all kinds a stop has returned a snapshot
C8_Witness ==
    /\ Live
    /\ \/ /\ \A k \in Kinds : fd[k] = -1
          /\ ret = Call("start", TRUE, NoKind)
          /\ stats.written
       \/ /\ \E k \in Kinds : fd[k] = -1
          /\ \E k \in Kinds : fd[k] # -1 /\ RawCount(stats, k) > 0
          /\ ret.op = "stop" /\ ret.ok /\ ret.snap

\* C9: open() acquires each kind on its own: a kind whose request is
\* refused has no handle and is not enabled, every other kind has an open
\* handle of its own and is enabled, and the session is Idle.
C9_AcquisitionIndependent ==
    ret = Call("init", TRUE, NoKind)
        => /\ Live /\ ~is_running
           /\ \A k \in Kinds :
                IF SetupAttr(KindEvent(k)[1], KindEvent(k)[2]) \in avail
                THEN fd[k] \in openFds /\ enabled[k]
                ELSE fd[k] = -1 /\ ~enabled[k]
           /\ \A j, k \in Kinds : (j # k /\ fd[j] # -1) => fd[j] # fd[k]

\* open() returned with the first kind refused and later kinds, hardware
\* and software, acquired
C9_Witness ==
    /\ ret = Call("init", TRUE, NoKind)
    /\ fd[PERFMON_CYCLES] = -1
    /\ fd[PERFMON_INSTRUCTIONS] # -1
    /\ fd[PERFMON_PAGE_FAULTS] = -1
    /\ fd[PERFMON_ITLB_MISSES] # -1

\* C10: enable(kind) with a valid kind returns true exactly when the slot
\* holds a handle; then only that slot's flag changes, to true; without a
\* handle nothing of the session changes, Idle or Running.
C10_EnableFrame ==
    [][\A type \in Kinds :
         (Live /\ perfmon_enable_counter(type))
            => /\ ret'.ok = (fd[type] # -1)
               /\ enabled' = IF fd[type] # -1 THEN [enabled EXCEPT ![type] = TRUE]
                             ELSE enabled
               /\ ~ret'.ok => error_msg' = error_msg
               /\ UNCHANGED <<fd, is_running, start_time, end_time, kernelVars, stats>>]_vars

\* enable returned true while Running for a slot that was disabled at the
\* start, so its flag is set while its counter is not counting
C10_Witness ==
    /\ Live /\ is_running
    /\ ret.op = "enable" /\ ret.ok
    /\ enabled[ret.kind] /\ ~active[ret.kind]

\* C11: disable(kind) with a valid kind returns true in every state of a
\* live session, Idle or Running, handle or not; that slot's flag becomes
\* false, and every other flag, every handle, the running flag and both
\* timestamps stay as they were.
C11_DisableFrame ==
    [][\A type \in Kinds :
         (Live /\ perfmon_disable_counter(type))
            => /\ ret' = Call("disable", TRUE, type)
               /\ ~enabled'[type]
               /\ \A k \in Kinds \ {type} : enabled'[k] = enabled[k]
               /\ UNCHANGED <<fd, is_running, start_time, end_time>>]_vars

\* disable returned true while Running for a slot without a handle, and
\* slots that hold a handle are still enabled
C11_Witness ==
    /\ Live /\ is_running
    /\ ret.op = "disable" /\ ret.ok
    /\ fd[ret.kind] = -1 /\ ~enabled[ret.kind]
    /\ \E k \in Kinds : fd[k] # -1 /\ enabled[k]

\* a timespec as a number of nanoseconds
Nanos(t) == t.tv_sec * NsecPerSec + t.tv_nsec

\* C12: the elapsed time of a snapshot is stopped_at minus started_at of
\* its start/stop pair, and is greater than 0 whenever the clock advanced
\* between the two calls: also when the nanosecond field of stopped_at is
\* the smaller one, and when reset() ran in between.
C12_ElapsedPositive ==
    (Live /\ ret.op = "stop" /\ ret.ok /\ ret.snap)
        => /\ stats.elapsed_time_sec = Nanos(end_time) - Nanos(start_time)
           /\ Nanos(end_time) > Nanos(start_time) => stats.elapsed_time_sec > 0

\* a snapshot was returned for a window with a reset() in it, started at
\* 0.5 s and stopped later at a time whose nanosecond field is smaller
C12_Witness ==
    /\ Live /\ ret.op = "stop" /\ ret.ok /\ ret.snap
    /\ resetSince
    /\ end_time.tv_nsec < start_time.tv_nsec
    /\ stats.elapsed_time_sec > 0

\* C13: in every snapshot, instructions_per_cycle is 0.0 when cycles is 0,
\* branch_miss_rate is 0.0 when branches is 0 and cache_miss_rate is 0.0
\* when cache_references is 0, whatever the numerators are.
C13_ZeroDenominator ==
    stats.written
        => /\ stats.cycles = 0 => stats.insn_per_cycle = ZeroRatio
           /\ stats.branches = 0 => stats.branch_miss_rate = ZeroRatio
           /\ stats.cache_references = 0 => stats.cache_miss_rate = ZeroRatio

\* a snapshot whose three denominators are 0 while its three numerators
\* are not
C13_Witness ==
    /\ Live /\ ret.op = "stop" /\ ret.ok /\ stats.written
    /\ stats.cycles = 0 /\ stats.instructions > 0
    /\ stats.branches = 0 /\ stats.branch_misses > 0
    /\ stats.cache_references = 0 /\ stats.cache_misses > 0

\* C14: a short or failed read of one kind's counter during stop() makes
\* that kind's count 0 and nothing else: stop() returns success, every
\* other kind's count is what its own read returns, the elapsed time and
\* the ratios are computed from the counts as filled, and the session is Idle.
C14_ShortReadAbsorbed ==
    [][\A rf \in ShortReads :
         (Live /\ is_running /\ ~is_running' /\ StopCall(TRUE, rf))
            => /\ ret'.op = "stop" /\ ret'.ok /\ ret'.snap
               /\ ~is_running'
               /\ stats'.written
               /\ \A k \in rf : RawCount(stats', k) = 0
               /\ \A k \in Kinds \ rf :
                    RawCount(stats', k) = IF fd[k] = -1 THEN 0 ELSE count[k]
               /\ stats'.elapsed_time_sec = Nanos(now) - Nanos(start_time)
               /\ stats'.insn_per_cycle =
                    IF stats'.cycles = 0 THEN ZeroRatio
                    ELSE <<stats'.instructions, stats'.cycles>>
               /\ stats'.branch_miss_rate =
                    IF stats'.branches = 0 THEN ZeroRatio
                    ELSE <<100 * stats'.branch_misses, stats'.branches>>
               /\ stats'.cache_miss_rate =
                    IF stats'.cache_references = 0 THEN ZeroRatio
                    ELSE <<100 * stats'.cache_misses, stats'.cache_references>>]_vars

\* stop() has returned a snapshot in which the instructions count is 0
\* although its counter holds events, while the cycles count is the
\* counter's value and the elapsed time is positive
C14_Witness ==
    /\ Live /\ ~is_running
    /\ ret.op = "stop" /\ ret.ok /\ ret.snap
    /\ fd[PERFMON_INSTRUCTIONS] # -1 /\ count[PERFMON_INSTRUCTIONS] > 0
    /\ stats.instructions = 0
    /\ stats.cycles = count[PERFMON_CYCLES] /\ stats.cycles > 0
    /\ stats.branch_miss_rate # ZeroRatio
    /\ stats.elapsed_time_sec > 0

\* C15: in every reachable state of a live session, whatever calls of
\* open, start, stop, reset, enable and disable led to it, a slot without
\* a handle is not enabled.
C15_NoHandleNotEnabled ==
    Live => \A k \in Kinds : fd[k] = -1 => ~enabled[k]

\* enable has just been refused for a slot without a handle, on a session
\* that has completed a measurement and holds handles in other slots
C15_Witness ==
    /\ Live /\ stats.written
    /\ ret.op = "enable" /\ ~ret.ok /\ ret.kind \in Kinds
    /\ fd[ret.kind] = -1 /\ ~enabled[ret.kind]
    /\ \E k \in Kinds : fd[k] # -1 /\ enabled[k]

\* C16: the running flag is false right after open(), becomes true exactly
\* at a successful start() and false exactly at a successful stop(); a
\* failed start or stop, reset(), enable(), disable() and the workload
\* leave it as it is.  So it is true only between a successful start and
\* the next successful stop.
C16_RunningFlag ==
    [][/\ (ctx = "null" /\ Live') => ~is_running'
       /\ (Live /\ is_running' # is_running)
            => \/ ~is_running /\ ret' = Call("start", TRUE, NoKind) /\ perfmon_start
               \/ /\ is_running /\ ret'.op = "stop" /\ ret'.ok
                  /\ perfmon_stop
       /\ (Live /\ is_running' = is_running)
            => /\ ~(ret' = Call("start", TRUE, NoKind) /\ perfmon_start)
               /\ ~(ret'.op = "stop" /\ ret'.ok /\ perfmon_stop)]_vars

\* a Running session on which a start was refused and then reset,
\* disable and enable were called
C16_Witness ==
    /\ Live /\ is_running
    /\ error_msg.text = "Monitoring already running"
    /\ resetSince
    /\ ret.op = "enable" /\ ret.ok
    /\ ret.kind \notin onSince

\* C17 (as claimed): in every successful stop() each counter is disabled
\* before it is read, so once stop() has returned no counter of the session
\* is counting and no count of the snapshot was read from a counting
\* counter: also for a slot that start() started and disable() then
\* flagged off while Running.
C17_StopLeavesNoneCounting ==
    (Live /\ ret.op = "stop" /\ ret.ok)
        => \A k \in Kinds : fd[k] # -1 => ~active[k]

\* C18 (as claimed): start() resets every enabled slot that has a handle
\* and then enables it, so for a slot that stays enabled from a successful
\* start() to the matching stop(), with no reset() in between, the count of
\* the snapshot is the number of events between that start and that stop.
C18_WindowCountExact ==
    /\ (Live /\ is_running) => \A k \in onSince : active[k] /\ count[k] = evSince[k]
    /\ (Live /\ ret.op = "stop" /\ ret.ok /\ ret.snap)
          => \A k \in onSince : RawCount(stats, k) = evSince[k]

\* C18 (amended): start() resets every enabled slot that has a handle and
\* enables it, and the slot counts the events of the window from zero; at
\* the matching stop() the count of the snapshot is the number of events
\* of the window if the read of the counter returns its value, and 0 if
\* that read comes back short.
C18_WindowCountUnlessShortRead ==
    [][/\ (Live /\ ~is_running /\ is_running' /\ perfmon_start)
            => \A k \in Selected : count'[k] = 0 /\ active'[k] /\ k \in onSince'
       /\ (Live /\ is_running /\ is_running')
            => \A k \in onSince' : active'[k] /\ count'[k] = evSince'[k]
       /\ \A rf \in SUBSET KindArgs :
            (Live /\ is_running /\ ~is_running' /\ StopCall(TRUE, rf))
               => \A k \in onSince :
                    RawCount(stats', k) = IF k \in rf THEN 0 ELSE evSince[k]]_vars

\* a snapshot was returned whose cycles count is the one event of its
\* window, on a session whose cycles slot stayed enabled through the window
C18_Witness ==
    /\ Live /\ ret.op = "stop" /\ ret.ok /\ ret.snap
    /\ PERFMON_CYCLES \in onSince
    /\ evSince[PERFMON_CYCLES] > 0
    /\ stats.cycles = evSince[PERFMON_CYCLES]
    /\ error_msg.text = "Monitoring not running"

\* C19: reset() sets the counter of every enabled slot with a handle to
\* zero and no other counter, and leaves every enabled flag, every
\* counter's counting state, the running flag and both timestamps as they
\* were, Idle or Running.
C19_ResetFrame ==
    [][(Live /\ perfmon_reset)
         => /\ ret' = Call("reset", TRUE, NoKind)
            /\ \A k \in Kinds :
                 count'[k] = IF enabled[k] /\ fd[k] # -1 THEN 0 ELSE count[k]
            /\ UNCHANGED <<fd, enabled, active, is_running, start_time, end_time>>]_vars

\* reset() returned while Running and left alone the counter of a slot
\* that was disabled after the start: it holds events and is still counting
C19_Witness ==
    /\ Live /\ is_running
    /\ ret = Call("reset", TRUE, NoKind)
    /\ \E k \in Kinds : fd[k] # -1 /\ ~enabled[k] /\ active[k] /\ count[k] > 0
    /\ \E k \in Kinds : enabled[k] /\ active[k] /\ count[k] = 0

\* the kinds whose request the environment refuses
Refused == {k \in Kinds : SetupAttr(KindEvent(k)[1], KindEvent(k)[2]) \notin avail}

\* C20 (as claimed): the diagnostic slot is empty as long as no call on the
\* thread has failed, and after a call that reports failure (start while
\* Running, stop while Idle, enable or disable of an out-of-range kind,
\* enable of a slot without a handle) it holds a message of that call, not
\* one left by an earlier failure; after open() it names the last kind
\* whose acquisition failed.
C20_LastErrorIsLatestFailure ==
    /\ ~anyFailure => error_msg = NoError
    /\ (ret.op \in {"start", "stop", "reset", "enable", "disable"} /\ ~ret.ok)
          => error_msg.text \in MessagesOf(ret.op)
    /\ (ret = Call("init", TRUE, NoKind) /\ Refused # {})
          => \E i \in 1..Len(SetupOrder) :
               /\ SetupOrder[i] \in Refused
               /\ \A j \in (i + 1)..Len(SetupOrder) : SetupOrder[j] \notin Refused
               /\ error_msg = OpenError(KindEvent(SetupOrder[i])[1], KindEvent(SetupOrder[i])[2])

\* C20 (amended): the diagnostic slot is empty as long as no call on the
\* thread has failed; after a failing start, stop, reset, disable or enable
\* of an out-of-range kind it holds the message of that call, and after
\* open() it names the last kind whose acquisition failed.  enable of a
\* slot without a handle returns false and writes no message: the slot then
\* still holds the message of an earlier failure.
C20_LastErrorExceptSilentEnable ==
    /\ ~anyFailure => error_msg = NoError
    /\ (ret.op \in {"start", "stop", "reset", "enable", "disable"} /\ ~ret.ok)
          => IF ret.op = "enable" /\ ret.kind \in Kinds /\ Live
             THEN fd[ret.kind] = -1 /\ error_msg # NoError
             ELSE error_msg.text \in MessagesOf(ret.op)
    /\ (ret = Call("init", TRUE, NoKind) /\ Refused # {})
          => \E i \in 1..Len(SetupOrder) :
               /\ SetupOrder[i] \in Refused
               /\ \A j \in (i + 1)..Len(SetupOrder) : SetupOrder[j] \notin Refused
               /\ error_msg = OpenError(KindEvent(SetupOrder[i])[1], KindEvent(SetupOrder[i])[2])

\* enable has just returned false for a slot without a handle, and the
\* diagnostic slot still holds the message of the start refused before it
C20_Witness ==
    /\ Live /\ is_running
    /\ ret.op = "enable" /\ ~ret.ok /\ ret.kind \in Kinds
    /\ error_msg.text = "Monitoring already running"

\* C21: stop() of a Running session with no snapshot destination records
\* stopped_at, disables every enabled slot that has a handle, returns
\* success and leaves the session Idle (so the next start() is accepted);
\* it changes what a stop() with a destination changes, except that no
\* counter is read and the caller's snapshot is not written.
C21_StopWithoutSnapshot ==
    [][(Live /\ is_running /\ ~is_running' /\ StopCall(FALSE, {}))
         => /\ ret' = Call("stop", TRUE, NoKind)
            /\ end_time' = now
            /\ \A k \in Kinds :
                 active'[k] = IF enabled[k] /\ fd[k] # -1 THEN FALSE ELSE active[k]
            /\ ~is_running' /\ ~StartRejected'
            /\ stats' = stats
            /\ UNCHANGED <<fd, enabled, start_time, openFds, closes, count, error_msg>>
            /\ \A rf \in SUBSET KindArgs :
                 ENABLED (StopCall(TRUE, rf)
                            /\ UNCHANGED <<fd, enabled, start_time, openFds, closes, count,
                                           error_msg>>
                            /\ end_time' = now /\ ~is_running'
                            /\ active' = IocDisable(Selected))]_vars

\* a start() was accepted after a stop() without a destination: a window
\* was closed at a later clock time, no snapshot was ever written, and the
\* session is Running again with a counter holding events
C21_Witness ==
    /\ Live /\ is_running
    /\ ret = Call("start", TRUE, NoKind)
    /\ end_time # ZeroTime
    /\ ~stats.written
    /\ \E k \in Kinds : fd[k] # -1 /\ enabled[k] /\ active[k]

====
